---- MODULE Spec2Model ----
(***************************************************************************)
(* apicurio-sync: the reconciliation engine.  One run of the tool          *)
(* (main.rs run) loads or creates the lockfile (lockfile.rs), builds the   *)
(* plan (plan.rs) and then either forces a lockfile update or applies the  *)
(* plan (sync.rs) against the registry and the working directory.          *)
(*                                                                         *)
(* Option<T> is modelled as a sequence of length at most one:              *)
(* None == <<>>, Some(x) == <<x>>.  A HashMap is a function whose DOMAIN   *)
(* is its key set.                                                         *)
(***************************************************************************)
EXTENDS Integers, Sequences, FiniteSets, TLC

\* Longest pull list of a configuration.
MaxPull == 2
\* Longest push list of a configuration.
MaxPush == 2
\* Number of runs of the tool after the first one.
MaxReruns == 1

None == <<>>
Some(x) == <<x>>

Paths == {"p1", "p2"}
Groups == {"g1"}
Artifacts == {"a1", "a2"}
Versions == {"1", "2"}

(***************************************************************************)
(* The registry (provider.rs, client/v2.rs).                               *)
(***************************************************************************)

TypeOf(a) == IF a = "a1" THEN "AVRO" ELSE "JSON"

GlobalIdOf(a, v) ==
    CASE a = "a1" /\ v = "1" -> 41
      [] a = "a1" /\ v = "2" -> 42
      [] a = "a2" /\ v = "1" -> 43
      [] OTHER -> 44

\* provider::ArtifactMetadata / ArtifactVersionMetadata, the fields the tool reads.
Metadata(g, a, v) ==
    [group_id |-> g, id |-> a, version |-> v,
     global_id |-> GlobalIdOf(a, v), artifact_type |-> TypeOf(a)]

\* The bytes of one artifact version.
Content(g, a, v) == <<"registry", g, a, v>>

(***************************************************************************)
(* Configuration (config.rs).                                              *)
(***************************************************************************)

PullSpecs ==
    [path : Paths, group : Groups, artifact : Artifacts,
     version : {None} \cup {Some(v) : v \in Versions}]

PushSpecs ==
    { [path |-> "p1", group |-> "g1", artifact |-> "a1", artifact_type |-> None,
       name |-> None, description |-> None, labels |-> None, properties |-> None],
      [path |-> "p1", group |-> "g1", artifact |-> "a2", artifact_type |-> Some("JSON"),
       name |-> Some("n"), description |-> None, labels |-> Some(<<"l">>),
       properties |-> None],
      [path |-> "p2", group |-> "g1", artifact |-> "a2", artifact_type |-> Some("AVRO"),
       name |-> None, description |-> Some("d"), labels |-> None,
       properties |-> Some(<<"k", "v">>)] }

SeqsUpTo(S, n) == UNION { [1..k -> S] : k \in 0..n }

PathsOf(specs) == { specs[i].path : i \in DOMAIN specs }

(***************************************************************************)
(* Lockfile (lockfile.rs).                                                 *)
(***************************************************************************)

EmptyMap == << >>

Insert(m, k, v) == (k :> v) @@ m

EmptyLock == [push |-> EmptyMap, pull |-> EmptyMap]

\* serde_json::to_vec_pretty(&self): the path field is skipped.
ToJson(l) == [kind |-> "json", push |-> l.push, pull |-> l.pull]

\* serde_json::from_reader of a well-formed lockfile.
FromJson(d) == [push |-> d.push, pull |-> d.pull]

Absent == [kind |-> "absent"]
Malformed == [kind |-> "malformed"]
\* The file as File::create leaves it until write_all has completed.
Truncated == [kind |-> "truncated"]

\* lockfile::PushArtifactRef of a push spec.
LockedPush(spec) ==
    [group |-> spec.group, artifact |-> spec.artifact,
     artifact_type |-> spec.artifact_type]

\* LockedPull with the group and the artifact id taken from each other's field.
LockedPullSwapped(metadata) ==
    [group |-> metadata.id, artifact |-> metadata.group_id,
     global_id |-> metadata.global_id, version |-> metadata.version,
     artifact_type |-> metadata.artifact_type]

\* lockfile::PullArtifactRef of a metadata response.
LockedPull(metadata) ==
    [group |-> metadata.group_id, artifact |-> metadata.id,
     global_id |-> metadata.global_id, version |-> metadata.version,
     artifact_type |-> metadata.artifact_type]

\* GeneratePush that inserts nothing.
GeneratePushNothing(push, specs, i, force) == push

\* The push loop of generate over specs[i..].
RECURSIVE GeneratePush(_, _, _, _)
GeneratePush(push, specs, i, force) ==
    IF i > Len(specs) THEN push
    ELSE IF ~force /\ specs[i].path \in DOMAIN push
         THEN GeneratePush(push, specs, i + 1, force)
         ELSE GeneratePush(Insert(push, specs[i].path, LockedPush(specs[i])),
                           specs, i + 1, force)

\* Prune without the removal of the keys outside pull_inserted.
PruneKeepsAll(pull, inserted) == pull

\* The stale-entry removal that ends the pull loop of generate.
Prune(pull, inserted) == [k \in (DOMAIN pull) \cap inserted |-> pull[k]]

(***************************************************************************)
(* Plan (plan.rs).                                                         *)
(***************************************************************************)

\* PullArtifactRef::default() and PushArtifactRef::default() of plan.rs.
DefaultPullRef ==
    [group |-> None, artifact |-> None, artifact_type |-> None, version |-> None]

DefaultPushRef ==
    [group |-> None, artifact |-> None, artifact_type |-> None, name |-> None,
     description |-> None, labels |-> None, properties |-> None]

EntryOr(m, k, default) == IF k \in DOMAIN m THEN m[k] ELSE default

\* The first loop of merge_with_config over specs[i..].
RECURSIVE MergePullConfig(_, _, _)
MergePullConfig(pull, specs, i) ==
    IF i > Len(specs) THEN pull
    ELSE LET old == EntryOr(pull, specs[i].path, DefaultPullRef)
             new == [old EXCEPT !.group = Some(specs[i].group),
                                !.artifact = Some(specs[i].artifact),
                                !.version = specs[i].version]
         IN  MergePullConfig(Insert(pull, specs[i].path, new), specs, i + 1)

\* The second loop of merge_with_config over specs[i..].
RECURSIVE MergePushConfig(_, _, _)
MergePushConfig(push, specs, i) ==
    IF i > Len(specs) THEN push
    ELSE LET old == EntryOr(push, specs[i].path, DefaultPushRef)
             new == [old EXCEPT !.group = Some(specs[i].group),
                                !.artifact = Some(specs[i].artifact),
                                !.artifact_type = specs[i].artifact_type,
                                !.name = specs[i].name,
                                !.description = specs[i].description,
                                !.labels = specs[i].labels,
                                !.properties = specs[i].properties]
         IN  MergePushConfig(Insert(push, specs[i].path, new), specs, i + 1)

merge_with_config(p, cfg) ==
    [push |-> MergePushConfig(p.push, cfg.push, 1),
     pull |-> MergePullConfig(p.pull, cfg.pull, 1)]

\* MergeLockedEntry that keeps a version the plan entry already has.
MergeLockedEntryKeepsVersion(old, locked) ==
    [old EXCEPT !.group = Some(locked.group),
                !.artifact = Some(locked.artifact),
                !.version = IF old.version = None THEN Some(locked.version)
                            ELSE old.version]

\* One iteration of the loop of merge_with_lockfile.
MergeLockedEntry(old, locked) ==
    [old EXCEPT !.group = Some(locked.group),
                !.artifact = Some(locked.artifact),
                !.version = Some(locked.version)]

\* merge_with_lockfile that also lays the lockfile's push entries over the plan's.
merge_with_lockfile_and_push(p, lockfile) ==
    [push |-> [k \in (DOMAIN p.push) \cup (DOMAIN lockfile.push) |->
                 IF k \in DOMAIN lockfile.push
                 THEN [EntryOr(p.push, k, DefaultPushRef)
                         EXCEPT !.group = Some(lockfile.push[k].group),
                                !.artifact = Some(lockfile.push[k].artifact)]
                 ELSE p.push[k]],
     pull |-> [k \in (DOMAIN p.pull) \cup (DOMAIN lockfile.pull) |->
                 IF k \in DOMAIN lockfile.pull
                 THEN MergeLockedEntry(EntryOr(p.pull, k, DefaultPullRef),
                                       lockfile.pull[k])
                 ELSE p.pull[k]]]

\* Every key of lockfile.pull is visited once, so the order does not matter.
merge_with_lockfile(p, lockfile) ==
    [push |-> p.push,
     pull |-> [k \in (DOMAIN p.pull) \cup (DOMAIN lockfile.pull) |->
                 IF k \in DOMAIN lockfile.pull
                 THEN MergeLockedEntry(EntryOr(p.pull, k, DefaultPullRef),
                                       lockfile.pull[k])
                 ELSE p.pull[k]]]

EmptyPlan == [push |-> EmptyMap, pull |-> EmptyMap]

\* BuildPlan without the lockfile layer.
BuildPlanWithoutLockfile(cfg, lockfile) == merge_with_config(EmptyPlan, cfg)

\* Plan::new(ctx).merge_with_config(&config).merge_with_lockfile(&lockfile)
BuildPlan(cfg, lockfile) ==
    merge_with_lockfile(merge_with_config(EmptyPlan, cfg), lockfile)

(***************************************************************************)
(* State.                                                                  *)
(***************************************************************************)

VARIABLES
    config,         \* the configuration file: [pull, push], two lists of specs
    disk,           \* the lockfile on disk
    files,          \* the working directory: path -> bytes
    registry,       \* the artifacts uploaded to the registry: <<group, artifact>> -> upload
    latest,         \* the registry's latest version of each artifact
    cmd,            \* the command of the current run: "sync" or "update"
    pc,             \* where the current run stands
    lock,           \* the LockFile value of the run: [push, pull]
    force,          \* the update argument of the running generate
    idx,            \* the position of generate's pull loop in config.pull
    pull_inserted,  \* generate's pull_inserted set
    plan,           \* the Plan of the run: [push, pull]
    todo,           \* the keys the running sync loop has not visited yet
    result,         \* how the run ended: "running", "ok" or the error kind
    reruns,         \* the runs started after the first one
    passDisk,       \* history: the lockfile on disk when the current pass began
    passLock,       \* history: the LockFile value when the current pass began
    fetches,        \* history: the metadata requests of the current pass
    writes,         \* history: the lockfiles the current pass has persisted
    ops,            \* history: the registry and file operations of the sync
    prev,           \* history: what the previous successful sync left behind
    ctxFile,        \* the context file on disk
    ctxEnv,         \* the two environment variables of context.rs: [url, name]
    ctx,            \* what Context::try_new returned
    merged,         \* history: the arguments and the value of a call of Context::merge
    written         \* the context the last login or context set stored, or its error

vars ==
    <<config, disk, files, registry, latest, cmd, pc, lock, force, idx,
      pull_inserted, plan, todo, result, reruns, passDisk, passLock, fetches,
      writes, ops, prev, ctxFile, ctxEnv, ctx, merged, written>>

contextVars == <<ctxFile, ctxEnv, ctx, merged, written>>
env == <<config, latest, contextVars>>
world == <<disk, files, registry>>
passVars == <<force, idx, pull_inserted, passDisk, passLock, fetches, writes>>

\* The versions of an artifact the registry holds: those up to its latest one.
RegistryVersions(a) ==
    IF a \notin DOMAIN latest THEN {}
    ELSE IF latest[a] = "2" THEN {"1", "2"} ELSE {"1"}

Missing == <<"missing">>
\* A file that File::create has truncated and write_all has not filled.
Partial == <<"partial">>
LocalBytes(p) == <<"local", p>>

NoUpload == [content |-> Missing, meta |-> None]
NoPrev == [kind |-> "none"]

(***************************************************************************)
(* The lockfiles an earlier run can have left on disk.                     *)
(***************************************************************************)

LockedPulls ==
    { LockedPull(Metadata(g, a, v)) :
        g \in Groups, a \in Artifacts, v \in Versions }

\* The maps whose keys are among the keys of valuesOf, each key to one of its values.
MapsOver(valuesOf) ==
    UNION { { f \in [S -> UNION { valuesOf[k] : k \in S }] :
                \A k \in S : f[k] \in valuesOf[k] } : S \in SUBSET DOMAIN valuesOf }

PullEntriesFor(p) ==
    { e \in LockedPulls : e.version \in RegistryVersions(e.artifact) }

PushEntriesFor(p) == { LockedPush(s) : s \in { t \in PushSpecs : t.path = p } }

PriorPullMaps == MapsOver([p \in Paths |-> PullEntriesFor(p)])
PriorPushMaps == MapsOver([p \in Paths |-> PushEntriesFor(p)])

UnpinnedSpecs == { s \in PullSpecs : s.version = None }

\* A project that pulls: any pull list, any earlier pull locks.
InitPulling ==
    /\ config \in [pull : SeqsUpTo(PullSpecs, MaxPull), push : {<<>>}]
    /\ disk \in {Absent, Malformed}
                \cup { ToJson([push |-> EmptyMap, pull |-> m]) : m \in PriorPullMaps }

\* A project that pushes: any push list, any earlier push locks.
InitPushing ==
    /\ config \in [pull : SeqsUpTo(UnpinnedSpecs, MaxPull - 1),
                   push : SeqsUpTo(PushSpecs, MaxPush) \ {<<>>}]
    /\ disk \in {Absent}
                \cup { ToJson([push |-> m, pull |-> EmptyMap]) : m \in PriorPushMaps }

(***************************************************************************)
(* Context (context.rs).                                                   *)
(***************************************************************************)

ContextNames == {"dev", "prod"}
\* The strings the environment may hold as a registry URL; "bad" is not a URL.
RawUrls == {"u1", "u2", "bad"}

\* Result<T, Error>.
Ok(v) == [kind |-> "ok", value |-> v]
Err(k) == [kind |-> k]

\* str::parse::<Url>.
ParseUrl(raw) == IF raw = "bad" THEN Err("Parse") ELSE Ok([href |-> raw])

Urls == { ParseUrl(raw).value : raw \in RawUrls \ {"bad"} }

\* context::Auth.
AuthNone == [type |-> "none"]
Auths ==
    { AuthNone,
      [type |-> "basic", username |-> "user", password |-> "pw"],
      [type |-> "oidc", access_token |-> "token"] }

\* RegistryContext and ContextFile.
RegistryContexts == [url : Urls, auth : Auths]

ContextFiles ==
    { [kind |-> "absent"], [kind |-> "malformed"] } \cup
    { [kind |-> "json", current_context |-> c, contexts |-> m] :
        c \in {None} \cup { Some(n) : n \in ContextNames },
        m \in MapsOver([n \in ContextNames |-> RegistryContexts]) }

Environments ==
    [url : {None} \cup { Some(u) : u \in RawUrls },
     name : {None, Some("ci")}]

\* Context::new: the auth is Auth::default().
Context_new(context_name, registry_url) ==
    [context_name |-> context_name, registry_url |-> registry_url, auth |-> AuthNone]

Contexts == [context_name : ContextNames, registry_url : Urls, auth : Auths]

\* Context::from_file once File::open has answered.
from_file(file, context_name) ==
    IF file.kind = "absent" THEN Ok(None)
    ELSE IF file.kind = "malformed" THEN Err("Parse")
    ELSE LET name == IF context_name # None THEN context_name
                     ELSE file.current_context
         IN  IF name # None /\ name[1] \in DOMAIN file.contexts
             THEN Ok(Some(Context_new(name[1], file.contexts[name[1]].url)))
             ELSE Ok(None)

\* Context::from_env.
from_env(environment) ==
    IF environment.url = None THEN Ok(None)
    ELSE LET raw == environment.url[1]
             name == IF environment.name # None THEN environment.name[1] ELSE raw
         IN  IF ParseUrl(raw).kind # "ok" THEN ParseUrl(raw)
             ELSE Ok(Some(Context_new(name, ParseUrl(raw).value)))

\* Context::merge that lets the environment's context replace the file's.
merge_prefers_other(this, other) == IF other # None THEN other ELSE this

\* Context::merge.
merge(this, other) ==
    IF this = None \/ other = None
    THEN IF this # None THEN this ELSE other
    ELSE Some([this[1] EXCEPT !.registry_url = other[1].registry_url])

\* Context::set_auth.
set_auth(c, auth) == [c EXCEPT !.auth = auth]

\* The context file Context::write leaves, or the error of its read_file.
Context_write(file, c, current) ==
    IF file.kind = "absent" THEN Err("Io")
    ELSE IF file.kind = "malformed" THEN Err("Parse")
    ELSE Ok([kind |-> "json",
             current_context |-> IF current THEN Some(c.context_name)
                                 ELSE file.current_context,
             contexts |-> Insert(file.contexts, c.context_name,
                                 [url |-> c.registry_url, auth |-> c.auth])])

\* Context::try_new once File::open has answered.
try_new(file, context_name, environment) ==
    LET file_ctx == from_file(file, context_name)
        env_ctx == from_env(environment)
    IN  IF file_ctx.kind # "ok" THEN file_ctx
        ELSE IF env_ctx.kind # "ok" THEN env_ctx
        ELSE LET m == merge(file_ctx.value, env_ctx.value)
             IN  IF m = None THEN Err("Setup") ELSE Ok(m[1])

NoCall == [kind |-> "none"]

\* No context has been asked for.
NoContextCall ==
    /\ ctxFile = [kind |-> "absent"]
    /\ ctxEnv = [url |-> Some("u1"), name |-> None]
    /\ ctx = NoCall
    /\ merged = NoCall
    /\ written = NoCall

\* The state of a run before its first step.
RunStart ==
    /\ files = [p \in Paths |-> IF p = "p1" THEN LocalBytes(p) ELSE Missing]
    /\ registry = [k \in Groups \X Artifacts |-> NoUpload]
    /\ cmd \in {"sync", "update"}
    /\ pc = "start"
    /\ lock = EmptyLock
    /\ force = FALSE
    /\ idx = 1
    /\ pull_inserted = {}
    /\ plan = EmptyPlan
    /\ todo = {}
    /\ result = "running"
    /\ reruns = 0
    /\ passDisk = disk
    /\ passLock = EmptyLock
    /\ fetches = <<>>
    /\ writes = <<>>
    /\ ops = <<>>
    /\ prev = NoPrev

\* The registry holds one or two versions of a1 and one version of a2.
InitialLatest == { [a \in Artifacts |-> IF a = "a1" THEN v ELSE "1"] : v \in Versions }

Init ==
    /\ latest \in InitialLatest
    /\ InitPulling \/ InitPushing
    /\ RunStart
    /\ NoContextCall

(***************************************************************************)
(* LockFile::try_load_for_config, LockFile::update, LockFile::generate.    *)
(***************************************************************************)

\* generate up to its first await: the push loop and the empty-pull reset.
GenerateEnter(l, f) ==
    /\ lock' = [push |-> GeneratePush(IF config.push = <<>> THEN EmptyMap ELSE l.push,
                                      config.push, 1, f),
                pull |-> IF config.pull = <<>> THEN EmptyMap ELSE l.pull]
    /\ force' = f
    /\ idx' = 1
    /\ pull_inserted' = {}
    /\ passDisk' = disk
    /\ passLock' = l
    /\ fetches' = <<>>
    /\ writes' = <<>>
    /\ pc' = "generate"

End(kind) ==
    /\ pc' = "done"
    /\ result' = kind

\* File::open answers NotFound: the run starts from LockFile::empty.
LoadAbsent ==
    /\ pc = "start"
    /\ disk = Absent
    /\ GenerateEnter(EmptyLock, FALSE)
    /\ UNCHANGED <<env, world, cmd, plan, todo, result, reruns, ops, prev>>

\* The lockfile exists and serde_json reads it.
LoadParsed ==
    /\ pc = "start"
    /\ disk.kind = "json"
    /\ GenerateEnter(FromJson(disk), FALSE)
    /\ UNCHANGED <<env, world, cmd, plan, todo, result, reruns, ops, prev>>

\* The kind of the error try_load_for_config returns for a file serde_json rejects.
ParseFailureKind == "Io"

\* The lockfile exists and serde_json rejects it.
LoadMalformed ==
    /\ pc = "start"
    /\ disk.kind \in {"malformed", "truncated"}
    /\ End(ParseFailureKind)
    /\ UNCHANGED <<env, world, cmd, lock, plan, todo, reruns, passVars, ops, prev>>

\* File::open fails with an error other than NotFound.
LoadOpenFail ==
    /\ pc = "start"
    /\ disk # Absent
    /\ End("Io")
    /\ UNCHANGED <<env, world, cmd, lock, plan, todo, reruns, passVars, ops, prev>>

\* Skips with the test dropped: every spec is resolved again.
SkipsNothing(f, pull, path) == FALSE

\* The test that lets an iteration of generate's pull loop continue early.
Skips(f, pull, path) == ~f /\ path \in DOMAIN pull

\* The request an iteration of generate's pull loop sends for a spec.
RequestFor(spec) ==
    IF spec.version # None
    THEN [kind |-> "version", group |-> spec.group, artifact |-> spec.artifact,
          version |-> spec.version[1]]
    ELSE [kind |-> "latest", group |-> spec.group, artifact |-> spec.artifact,
          version |-> latest[spec.artifact]]

\* The registry holds what the request asks for.
Found(req) == req.version \in RegistryVersions(req.artifact)

\* The entry generate locks for the answer to a request.
Resolve(req) == LockedPull(Metadata(req.group, req.artifact, req.version))

\* GenSkip that skips a locked path in a forcing pass too.
GenSkipAlsoForced ==
    /\ pc = "generate"
    /\ idx <= Len(config.pull)
    /\ config.pull[idx].path \in DOMAIN lock.pull
    /\ pull_inserted' = pull_inserted \cup {config.pull[idx].path}
    /\ idx' = idx + 1
    /\ UNCHANGED <<env, world, cmd, pc, lock, force, plan, todo, result, reruns,
                   passDisk, passLock, writes, fetches, ops, prev>>

GenSkip ==
    /\ pc = "generate"
    /\ idx <= Len(config.pull)
    /\ Skips(force, lock.pull, config.pull[idx].path)
    /\ pull_inserted' = pull_inserted \cup {config.pull[idx].path}
    /\ idx' = idx + 1
    /\ UNCHANGED <<env, world, cmd, pc, lock, force, plan, todo, result, reruns,
                   passDisk, passLock, writes, fetches, ops, prev>>

GenFetchOk ==
    /\ pc = "generate"
    /\ idx <= Len(config.pull)
    /\ LET spec == config.pull[idx]
           req == RequestFor(spec)
       IN  /\ ~Skips(force, lock.pull, spec.path)
           /\ Found(req)
           /\ pull_inserted' = pull_inserted \cup {spec.path}
           /\ fetches' = Append(fetches, [path |-> spec.path, req |-> req, ok |-> TRUE])
           /\ lock' = [lock EXCEPT !.pull = Insert(lock.pull, spec.path, Resolve(req))]
    /\ idx' = idx + 1
    /\ UNCHANGED <<env, world, cmd, pc, force, plan, todo, result, reruns,
                   passDisk, passLock, writes, ops, prev>>

\* GenFetchFail with the error dropped: the loop goes on to the next spec.
GenFetchFailIgnored ==
    /\ pc = "generate"
    /\ idx <= Len(config.pull)
    /\ LET spec == config.pull[idx]
           req == RequestFor(spec)
       IN  /\ ~Skips(force, lock.pull, spec.path)
           /\ pull_inserted' = pull_inserted \cup {spec.path}
           /\ fetches' = Append(fetches, [path |-> spec.path, req |-> req, ok |-> FALSE])
    /\ idx' = idx + 1
    /\ UNCHANGED <<env, world, cmd, pc, lock, force, plan, todo, result, reruns,
                   passDisk, passLock, writes, ops, prev>>

\* The request fails: the version is not there, or the transport fails.
GenFetchFail ==
    /\ pc = "generate"
    /\ idx <= Len(config.pull)
    /\ LET spec == config.pull[idx]
           req == RequestFor(spec)
       IN  /\ ~Skips(force, lock.pull, spec.path)
           /\ pull_inserted' = pull_inserted \cup {spec.path}
           /\ fetches' = Append(fetches, [path |-> spec.path, req |-> req, ok |-> FALSE])
    /\ End("Http")
    /\ UNCHANGED <<env, world, cmd, lock, force, idx, plan, todo, reruns,
                   passDisk, passLock, writes, ops, prev>>

\* GenWriteOk that leaves the file alone when the pass changed nothing.
GenWriteOkUnlessUnchanged ==
    /\ pc = "generate"
    /\ idx > Len(config.pull)
    /\ lock' = [lock EXCEPT !.pull = Prune(lock.pull, pull_inserted)]
    /\ IF ToJson(lock') = disk
       THEN disk' = disk /\ writes' = writes
       ELSE /\ disk' = ToJson(lock')
            /\ writes' = Append(writes, [content |-> disk', fetched |-> Len(fetches)])
    /\ IF force THEN End("ok") ELSE pc' = "plan" /\ result' = result
    /\ UNCHANGED <<env, files, registry, cmd, plan, todo, reruns, force, idx,
                   pull_inserted, passDisk, passLock, fetches, ops, prev>>

\* The loop is over: prune, File::create, write_all.
GenWriteOk ==
    /\ pc = "generate"
    /\ idx > Len(config.pull)
    /\ lock' = [lock EXCEPT !.pull = Prune(lock.pull, pull_inserted)]
    /\ disk' = ToJson(lock')
    /\ writes' = Append(writes, [content |-> disk', fetched |-> Len(fetches)])
    /\ IF force THEN End("ok") ELSE pc' = "plan" /\ result' = result
    /\ UNCHANGED <<env, files, registry, cmd, plan, todo, reruns, force, idx,
                   pull_inserted, passDisk, passLock, fetches, ops, prev>>

GenCreateFail ==
    /\ pc = "generate"
    /\ idx > Len(config.pull)
    /\ lock' = [lock EXCEPT !.pull = Prune(lock.pull, pull_inserted)]
    /\ End("Io")
    /\ UNCHANGED <<env, world, cmd, plan, todo, reruns, passVars, ops, prev>>

GenWriteFail ==
    /\ pc = "generate"
    /\ idx > Len(config.pull)
    /\ lock' = [lock EXCEPT !.pull = Prune(lock.pull, pull_inserted)]
    /\ disk' = Truncated
    /\ End("Io")
    /\ UNCHANGED <<env, files, registry, cmd, plan, todo, reruns, passVars, ops, prev>>

(***************************************************************************)
(* run: the plan, then the command (main.rs).                              *)
(***************************************************************************)

\* Command::Update: update calls LockFile::update, which forces generate.
RunUpdate ==
    /\ pc = "plan"
    /\ cmd = "update"
    /\ plan' = BuildPlan(config, lock)
    /\ GenerateEnter(lock, TRUE)
    /\ UNCHANGED <<env, world, cmd, todo, result, reruns, ops, prev>>

\* RunSync taken for every command.
RunSyncAnyCommand ==
    /\ pc = "plan"
    /\ plan' = BuildPlan(config, lock)
    /\ todo' = DOMAIN plan'.pull
    /\ pc' = "pull"
    /\ UNCHANGED <<env, world, cmd, lock, result, reruns, passVars, ops, prev>>

\* Command::Sync: sync calls pull_artifacts first.
RunSync ==
    /\ pc = "plan"
    /\ cmd = "sync"
    /\ plan' = BuildPlan(config, lock)
    /\ todo' = DOMAIN plan'.pull
    /\ pc' = "pull"
    /\ UNCHANGED <<env, world, cmd, lock, result, reruns, passVars, ops, prev>>

(***************************************************************************)
(* pull_artifacts and push_artifacts (sync.rs), push_artifact (v2.rs).     *)
(* A HashMap is walked in an order the program does not choose: each       *)
(* iteration takes any key not visited yet.                                *)
(***************************************************************************)

\* The expects of pull_artifacts pass.
PullComplete(ref) == ref.group # None /\ ref.artifact # None /\ ref.version # None

\* The unwraps of push_artifacts pass.
PushComplete(ref) == ref.group # None /\ ref.artifact # None

\* PullRequest that asks for the latest version of the artifact.
PullRequestLatest(ref) ==
    [group |-> ref.group[1], artifact |-> ref.artifact[1],
     version |-> latest[ref.artifact[1]]]

\* The coordinate pull_artifacts asks the content of.
PullRequest(ref) ==
    [group |-> ref.group[1], artifact |-> ref.artifact[1], version |-> ref.version[1]]

Op(kind, path, what, ok) == [op |-> kind, path |-> path, what |-> what, ok |-> ok]

\* An iteration that fetches the content and writes the file.
PullOk ==
    /\ pc = "pull"
    /\ \E path \in todo :
        LET ref == plan.pull[path]
            req == PullRequest(ref)
            bytes == Content(req.group, req.artifact, req.version)
        IN  /\ PullComplete(ref)
            /\ Found(req)
            /\ files' = [files EXCEPT ![path] = bytes]
            /\ ops' = ops \o <<Op("fetch", path, req, TRUE), Op("mkdir", path, path, TRUE),
                             Op("write", path, bytes, TRUE)>>
            /\ todo' = todo \ {path}
    /\ UNCHANGED <<env, disk, registry, cmd, pc, lock, plan, result, reruns,
                   passVars, prev>>

\* PullFetchFail with the error dropped: sync goes on to push_artifacts.
PullFetchFailIgnored ==
    /\ pc = "pull"
    /\ \E path \in todo :
        LET ref == plan.pull[path]
        IN  /\ PullComplete(ref)
            /\ ops' = Append(ops, Op("fetch", path, PullRequest(ref), FALSE))
    /\ todo' = DOMAIN plan.push
    /\ pc' = "push"
    /\ UNCHANGED <<env, world, cmd, lock, plan, result, reruns, passVars, prev>>

\* An iteration that panics on a missing field or whose fetch fails.
PullFetchFail ==
    /\ pc = "pull"
    /\ \E path \in todo :
        LET ref == plan.pull[path]
        IN  IF PullComplete(ref)
            THEN /\ ops' = Append(ops, Op("fetch", path, PullRequest(ref), FALSE))
                 /\ End("Http")
            ELSE /\ ops' = ops
                 /\ End("panic")
    /\ UNCHANGED <<env, world, cmd, lock, plan, todo, reruns, passVars, prev>>

\* An iteration whose create_dir_all or File::create fails.
PullCreateFail ==
    /\ pc = "pull"
    /\ \E path \in todo :
        LET ref == plan.pull[path]
            req == PullRequest(ref)
        IN  /\ PullComplete(ref)
            /\ Found(req)
            /\ \/ ops' = ops \o <<Op("fetch", path, req, TRUE), Op("mkdir", path, path, FALSE)>>
               \/ ops' = ops \o <<Op("fetch", path, req, TRUE), Op("mkdir", path, path, TRUE),
                                 Op("create", path, path, FALSE)>>
    /\ End("Io")
    /\ UNCHANGED <<env, world, cmd, lock, plan, todo, reruns, passVars, prev>>

\* An iteration whose write_all fails after File::create truncated the file.
PullWriteFail ==
    /\ pc = "pull"
    /\ \E path \in todo :
        LET ref == plan.pull[path]
            req == PullRequest(ref)
        IN  /\ PullComplete(ref)
            /\ Found(req)
            /\ files' = [files EXCEPT ![path] = Partial]
            /\ ops' = ops \o <<Op("fetch", path, req, TRUE), Op("mkdir", path, path, TRUE),
                             Op("write", path, Partial, FALSE)>>
    /\ End("Io")
    /\ UNCHANGED <<env, disk, registry, cmd, lock, plan, todo, reruns, passVars, prev>>

\* pull_artifacts returns Ok: sync calls push_artifacts.
PullDone ==
    /\ pc = "pull"
    /\ todo = {}
    /\ todo' = DOMAIN plan.push
    /\ pc' = "push"
    /\ UNCHANGED <<env, world, cmd, lock, plan, result, reruns, passVars, ops, prev>>

\* PushArtifactMetadata of a plan entry.
PushMetadata(ref) ==
    [group_id |-> ref.group[1], artifact_id |-> ref.artifact[1], name |-> ref.name,
     description |-> ref.description, artifact_type |-> ref.artifact_type,
     labels |-> ref.labels, properties |-> ref.properties]

\* The POST of push_artifact: the content, upserted (ifExists=RETURN_OR_UPDATE).
Posted(old, md, bytes) ==
    [old EXCEPT !.content = bytes]

\* The PUT of push_artifact: the descriptive metadata.
MetaPut(old, md) ==
    [old EXCEPT !.meta = Some([name |-> md.name, description |-> md.description,
                               labels |-> md.labels, properties |-> md.properties])]

\* An iteration that reads the file and uploads it.
PushOk ==
    /\ pc = "push"
    /\ \E path \in todo :
        LET ref == plan.push[path]
            md == PushMetadata(ref)
            key == <<md.group_id, md.artifact_id>>
        IN  /\ files[path] # Missing
            /\ PushComplete(ref)
            /\ registry' = [registry EXCEPT
                              ![key] = MetaPut(Posted(registry[key], md, files[path]), md)]
            /\ ops' = Append(ops, Op("push", path, md, TRUE))
            /\ todo' = todo \ {path}
    /\ UNCHANGED <<env, disk, files, cmd, pc, lock, plan, result, reruns, passVars, prev>>

\* PushReadFail with the error dropped: the loop goes on to the next entry.
PushReadFailSkipsEntry ==
    /\ pc = "push"
    /\ \E path \in todo :
        /\ ops' = Append(ops, Op("read", path, files[path], FALSE))
        /\ todo' = todo \ {path}
    /\ UNCHANGED <<env, world, cmd, pc, lock, plan, result, reruns, passVars, prev>>

\* An iteration whose File::open or read_to_end fails.
PushReadFail ==
    /\ pc = "push"
    /\ \E path \in todo : ops' = Append(ops, Op("read", path, files[path], FALSE))
    /\ End("Io")
    /\ UNCHANGED <<env, world, cmd, lock, plan, todo, reruns, passVars, prev>>

\* An iteration that panics on a missing field or whose POST fails.
PushPostFail ==
    /\ pc = "push"
    /\ \E path \in todo :
        LET ref == plan.push[path]
        IN  /\ files[path] # Missing
            /\ IF PushComplete(ref)
               THEN /\ ops' = Append(ops, Op("push", path, PushMetadata(ref), FALSE))
                    /\ End("Http")
               ELSE /\ ops' = ops
                    /\ End("panic")
    /\ UNCHANGED <<env, world, cmd, lock, plan, todo, reruns, passVars, prev>>

\* An iteration whose POST succeeds and whose PUT fails.
PushMetaFail ==
    /\ pc = "push"
    /\ \E path \in todo :
        LET ref == plan.push[path]
            md == PushMetadata(ref)
            key == <<md.group_id, md.artifact_id>>
        IN  /\ files[path] # Missing
            /\ PushComplete(ref)
            /\ registry' = [registry EXCEPT ![key] = Posted(registry[key], md, files[path])]
            /\ ops' = Append(ops, Op("push", path, md, FALSE))
    /\ End("Http")
    /\ UNCHANGED <<env, disk, files, cmd, lock, plan, todo, reruns, passVars, prev>>

\* push_artifacts returns Ok: sync and run return Ok.
PushDone ==
    /\ pc = "push"
    /\ todo = {}
    /\ End("ok")
    /\ UNCHANGED <<env, world, cmd, lock, plan, todo, reruns, passVars, ops, prev>>

(***************************************************************************)
(* The next run of the tool in the same project.                           *)
(***************************************************************************)

Snapshot ==
    [kind |-> "sync", disk |-> disk, files |-> files, registry |-> registry,
     latest |-> latest]

Rerun ==
    /\ pc = "done"
    /\ result = "ok"
    /\ reruns < MaxReruns
    /\ reruns' = reruns + 1
    /\ prev' = IF cmd = "sync" THEN Snapshot ELSE NoPrev
    /\ cmd' \in {"sync", "update"}
    /\ pc' = "start"
    /\ lock' = EmptyLock
    /\ force' = FALSE
    /\ idx' = 1
    /\ pull_inserted' = {}
    /\ plan' = EmptyPlan
    /\ todo' = {}
    /\ result' = "running"
    /\ passDisk' = disk
    /\ passLock' = EmptyLock
    /\ fetches' = <<>>
    /\ writes' = <<>>
    /\ ops' = <<>>
    /\ UNCHANGED <<env, world>>

\* Between two runs somebody publishes version 2 of a1, the new latest version.
Publish ==
    /\ pc = "start"
    /\ reruns > 0
    /\ latest["a1"] = "1"
    /\ latest' = [latest EXCEPT !["a1"] = "2"]
    /\ UNCHANGED <<config, contextVars, world, cmd, pc, lock, plan, todo, result,
                   reruns, passVars, ops, prev>>

Next ==
    \/ LoadAbsent \/ LoadParsed \/ LoadMalformed \/ LoadOpenFail
    \/ GenSkip \/ GenFetchOk \/ GenFetchFail
    \/ GenWriteOk \/ GenCreateFail \/ GenWriteFail
    \/ RunUpdate \/ RunSync
    \/ PullOk \/ PullFetchFail \/ PullCreateFail \/ PullWriteFail \/ PullDone
    \/ PushOk \/ PushReadFail \/ PushPostFail \/ PushMetaFail \/ PushDone
    \/ Rerun \/ Publish

Spec == Init /\ [][Next]_vars

(***************************************************************************)
(* Properties.                                                             *)
(***************************************************************************)

\* The spec that speaks for a path: with duplicates, the one listed last.
(***************************************************************************)
(* Context resolution on its own: every context file and environment.      *)
(***************************************************************************)

runVars ==
    <<config, disk, files, registry, latest, cmd, pc, lock, force, idx,
      pull_inserted, plan, todo, result, reruns, passDisk, passLock, fetches,
      writes, ops, prev>>

ContextInit ==
    /\ latest = [a \in Artifacts |-> "1"]
    /\ config = [pull |-> <<>>, push |-> <<>>]
    /\ disk = Absent
    /\ RunStart
    /\ ctxFile \in ContextFiles
    /\ ctxEnv \in Environments
    /\ ctx = NoCall
    /\ merged = NoCall
    /\ written = NoCall
    /\ cmd = "sync"

\* ctx_fn of run: Context::try_new(path, None).
TryNew ==
    /\ ctx = NoCall
    /\ merged = NoCall
    /\ LET file_ctx == from_file(ctxFile, None)
           env_ctx == from_env(ctxEnv)
       IN  /\ ctx' = try_new(ctxFile, None, ctxEnv)
           /\ merged' = IF file_ctx.kind = "ok" /\ env_ctx.kind = "ok"
                        THEN [kind |-> "merge", this |-> file_ctx.value,
                              other |-> env_ctx.value,
                              out |-> merge(file_ctx.value, env_ctx.value)]
                        ELSE merged
    /\ UNCHANGED <<runVars, ctxFile, ctxEnv, written>>

\* File::open of from_file fails with an error other than NotFound.
TryNewOpenFail ==
    /\ ctx = NoCall
    /\ merged = NoCall
    /\ ctxFile.kind # "absent"
    /\ ctx' = Err("Io")
    /\ UNCHANGED <<runVars, ctxFile, ctxEnv, merged, written>>

\* Context::merge applied to any two Option<Context> values.
Merge ==
    /\ ctx = NoCall
    /\ merged = NoCall
    /\ written = NoCall
    /\ \E this, other \in {None} \cup { Some(c) : c \in Contexts } :
          merged' = [kind |-> "merge", this |-> this, other |-> other,
                     out |-> merge(this, other)]
    /\ UNCHANGED <<runVars, ctxFile, ctxEnv, ctx, written>>

\* What a command leaves once Context::write has answered.
Stored(w, c, current) ==
    IF w.kind = "ok"
    THEN /\ ctxFile' = w.value
         /\ written' = [kind |-> "written", context |-> c, current |-> current]
    ELSE /\ ctxFile' = ctxFile
         /\ written' = w

\* The login command: from_file for the current context, the provider's
\* set_auth, then write(path, true).
Login ==
    /\ ctx = NoCall
    /\ merged = NoCall
    /\ written = NoCall
    /\ \E auth \in Auths \ {AuthNone} :
          LET loaded == from_file(ctxFile, None)
          IN  IF loaded.kind # "ok" THEN written' = loaded /\ ctxFile' = ctxFile
              ELSE IF loaded.value = None
                   THEN written' = Err("Setup") /\ ctxFile' = ctxFile
              ELSE LET c == set_auth(loaded.value[1], auth)
                   IN  Stored(Context_write(ctxFile, c, TRUE), c, TRUE)
    /\ UNCHANGED <<runVars, ctxEnv, ctx, merged>>

\* The context set command: the named context of the file or a new one, its
\* URL replaced when one is given, then write(path, current).
ContextSet ==
    /\ ctx = NoCall
    /\ merged = NoCall
    /\ written = NoCall
    /\ \E context_name \in ContextNames, url \in {None} \cup { Some(u) : u \in Urls },
          current \in BOOLEAN :
          LET loaded == from_file(ctxFile, Some(context_name))
              found == IF loaded.value # None THEN loaded.value
                       ELSE IF url # None THEN Some(Context_new(context_name, url[1]))
                       ELSE None
          IN  IF loaded.kind # "ok" THEN written' = loaded /\ ctxFile' = ctxFile
              ELSE IF found = None
                   THEN written' = Err("Setup") /\ ctxFile' = ctxFile
              ELSE LET c == IF url # None THEN [found[1] EXCEPT !.registry_url = url[1]]
                            ELSE found[1]
                   IN  Stored(Context_write(ctxFile, c, current), c, current)
    /\ UNCHANGED <<runVars, ctxEnv, ctx, merged>>

ContextNext == TryNew \/ TryNewOpenFail \/ Merge \/ Login \/ ContextSet

ContextSpec == ContextInit /\ [][ContextNext]_vars

LastSpec(specs, p) ==
    specs[CHOOSE i \in DOMAIN specs :
            /\ specs[i].path = p
            /\ \A j \in DOMAIN specs : specs[j].path = p => j <= i]

PullPaths == PathsOf(config.pull)

\* A non-forcing pass has just completed (try_load_for_config returned Ok).
LoadSucceeded == pc = "plan"

\* A forcing pass has just completed (LockFile::update returned Ok).
UpdateSucceeded == pc = "done" /\ result = "ok" /\ force

PassSucceeded == LoadSucceeded \/ UpdateSucceeded

\* The paths the metadata requests of the current pass were sent for.
FetchedPaths == { fetches[i].path : i \in DOMAIN fetches }

\* C1: after a successful Reconcile pass, forcing or not, the pull-entry paths
\* of the lockfile (in memory and on disk) are exactly the pull-spec paths of
\* the configuration.
C1_LockfilePruning ==
    PassSucceeded =>
        /\ DOMAIN lock.pull = PullPaths
        /\ disk.kind = "json"
        /\ DOMAIN disk.pull = PullPaths

\* A non-forcing pass over a lockfile with a stale entry and a missing one.
C1_Witness ==
    /\ LoadSucceeded
    /\ (DOMAIN passLock.pull) \ PullPaths # {}
    /\ PullPaths \ (DOMAIN passLock.pull) # {}

\* The plan of the run has been built, from the lockfile LockAtBuild.
PlanBuilt == pc \in {"pull", "push"} \/ (pc = "generate" /\ force)

LockAtBuild == IF force THEN passLock ELSE lock

\* C2: for a path in both the configuration and the lockfile with different
\* versions, the built plan carries the configuration's version when the
\* configuration specifies one.
C2_ConfigOverridesLockfile ==
    PlanBuilt =>
        \A p \in PullPaths \cap DOMAIN LockAtBuild.pull :
            LET spec == LastSpec(config.pull, p)
            IN  (spec.version # None /\ spec.version # Some(LockAtBuild.pull[p].version))
                    => plan.pull[p].version = spec.version

\* C3: after a successful lockfile resolution, the entry of a path whose spec
\* pins a version has that version.
C3_VersionPrecedence ==
    PassSucceeded =>
        \A p \in PullPaths :
            LET spec == LastSpec(config.pull, p)
            IN  spec.version # None
                    => p \in DOMAIN lock.pull /\ Some(lock.pull[p].version) = spec.version

\* C4 as claimed: a non-forcing pass sends no request for a path the loaded
\* lockfile has an entry for and leaves that entry unchanged; requests go only
\* to configured paths without an entry.
C4_SkipsLockedPaths ==
    /\ ~force => FetchedPaths \subseteq PullPaths \ DOMAIN passLock.pull
    /\ LoadSucceeded =>
          \A p \in DOMAIN passLock.pull :
              p \in DOMAIN lock.pull /\ lock.pull[p] = passLock.pull[p]

\* C4 as amended: the entry is left unchanged when its path is still a
\* configured pull path, and is removed when it is not.
C4_SkipsLockedConfiguredPaths ==
    /\ ~force => FetchedPaths \subseteq PullPaths \ DOMAIN passLock.pull
    /\ LoadSucceeded =>
          \A p \in DOMAIN passLock.pull :
              IF p \in PullPaths
              THEN p \in DOMAIN lock.pull /\ lock.pull[p] = passLock.pull[p]
                                          /\ disk.pull[p] = passLock.pull[p]
              ELSE p \notin DOMAIN lock.pull

\* A non-forcing pass that kept a locked path and resolved another one.
C4_Witness ==
    /\ LoadSucceeded
    /\ PullPaths \cap DOMAIN passLock.pull # {}
    /\ fetches # <<>>

\* C5: a failed metadata request is the last one of its pass, ends the run
\* with that error, and the lockfile on disk is what it was when the pass began.
C5_FetchFailureAborts ==
    \A i \in DOMAIN fetches :
        ~fetches[i].ok =>
            /\ i = Len(fetches)
            /\ pc = "done"
            /\ result = "Http"
            /\ disk = passDisk
            /\ ops = <<>>

\* The second request of a pass fails after the first one was answered.
C5_Witness ==
    /\ Len(fetches) = 2
    /\ fetches[1].ok
    /\ ~fetches[2].ok
    /\ passDisk.kind = "json"

\* C6: whatever way a pass ends, the lockfile on disk is the one the pass
\* found or the full recomputed one.
C6_WriteAllOrNothing ==
    disk = passDisk \/ disk = ToJson(lock)

IsPullOp(o) == o.op \in {"fetch", "mkdir", "create", "write"}
IsPushOp(o) == o.op \in {"read", "push"}

\* C7: every pull operation of a sync comes before any push operation, and a
\* push operation happens only after every pull entry was written.
C7_PullBeforePush ==
    \A j \in DOMAIN ops :
        IsPushOp(ops[j]) =>
            /\ \A i \in DOMAIN ops : i > j => ~IsPullOp(ops[i])
            /\ \A p \in DOMAIN plan.pull :
                  \E i \in 1..(j - 1) : ops[i].op = "write" /\ ops[i].path = p /\ ops[i].ok

\* A sync that pulled an entry and then pushed one.
C7_Witness ==
    /\ DOMAIN plan.pull # {}
    /\ \E j \in DOMAIN ops : ops[j].op = "push" /\ ops[j].ok

\* The registry key of a push operation.
KeyOf(o) == <<o.what.group_id, o.what.artifact_id>>

\* C8: a failed operation of pull_artifacts or push_artifacts is the last
\* operation of the run, which ends with its error; what the earlier entries
\* wrote or uploaded is still there.
C8_FailureEndsLoop ==
    /\ \A i \in DOMAIN ops :
          ~ops[i].ok =>
              /\ i = Len(ops)
              /\ pc = "done"
              /\ result \in {"Http", "Io"}
    /\ \A i \in DOMAIN ops :
          (ops[i].op = "write" /\ ops[i].ok) => files[ops[i].path] = ops[i].what
    /\ \A i \in DOMAIN ops :
          (ops[i].op = "push" /\ ops[i].ok
             /\ \A j \in DOMAIN ops :
                   (j > i /\ ops[j].op = "push") => KeyOf(ops[j]) # KeyOf(ops[i]))
            => /\ registry[KeyOf(ops[i])].content = files[ops[i].path]
               /\ registry[KeyOf(ops[i])].meta # None
               /\ registry[KeyOf(ops[i])].meta[1].name = ops[i].what.name

\* A push fails after an earlier entry was uploaded.
C8_Witness ==
    /\ pc = "done"
    /\ result \in {"Http", "Io"}
    /\ \E i, j \in DOMAIN ops :
          /\ i < j
          /\ ops[i].op = "push" /\ ops[i].ok
          /\ IsPushOp(ops[j]) /\ ~ops[j].ok

\* A successful sync has just followed a successful sync.
SecondSyncDone ==
    /\ pc = "done" /\ result = "ok" /\ cmd = "sync"
    /\ prev.kind = "sync" /\ prev.latest = latest

\* C9: the second of two successful syncs in a row sends no metadata request
\* and leaves the lockfile, the files and the registry as the first one left them.
C9_SyncIdempotent ==
    SecondSyncDone =>
        /\ fetches = <<>>
        /\ disk = prev.disk
        /\ files = prev.files
        /\ registry = prev.registry

\* No two entries of the push plan upload to the same group and artifact.
DistinctPushTargets ==
    \A p, q \in DOMAIN plan.push :
        (p # q /\ PushComplete(plan.push[p]) /\ PushComplete(plan.push[q]))
            => <<plan.push[p].group, plan.push[p].artifact>>
                 # <<plan.push[q].group, plan.push[q].artifact>>

\* What the second sync does keep: everything but the content of an artifact
\* that two entries of the push plan upload to.
C9_SyncIdempotentDistinctTargets ==
    SecondSyncDone =>
        /\ fetches = <<>>
        /\ disk = prev.disk
        /\ files = prev.files
        /\ DistinctPushTargets => registry = prev.registry

\* A second sync that pulled and pushed again.
C9_Witness ==
    /\ SecondSyncDone
    /\ DOMAIN plan.pull # {}
    /\ \E j \in DOMAIN ops : ops[j].op = "push" /\ ops[j].ok

\* C10: after a successful update, the entry of a path whose spec has no version
\* is the answer to the latest-metadata request of that pass for the spec's
\* group and artifact, its five fields from that one answer, its version not empty.
C10_LatestResolved ==
    UpdateSucceeded =>
        \A p \in PullPaths :
            LET spec == LastSpec(config.pull, p)
                answer == Metadata(spec.group, spec.artifact, latest[spec.artifact])
            IN  spec.version = None =>
                    /\ \E i \in DOMAIN fetches :
                          /\ fetches[i].path = p
                          /\ fetches[i].ok
                          /\ fetches[i].req.kind = "latest"
                          /\ fetches[i].req.group = spec.group
                          /\ fetches[i].req.artifact = spec.artifact
                    /\ p \in DOMAIN lock.pull
                    /\ lock.pull[p].group = answer.group_id
                    /\ lock.pull[p].artifact = answer.id
                    /\ lock.pull[p].version = answer.version
                    /\ lock.pull[p].global_id = answer.global_id
                    /\ lock.pull[p].artifact_type = answer.artifact_type
                    /\ lock.pull[p].version # ""
                    /\ disk.pull[p] = lock.pull[p]

\* An update replaced an entry locked at an older version by the latest one.
C10_Witness ==
    /\ UpdateSucceeded
    /\ \E p \in PullPaths \cap DOMAIN passLock.pull :
          /\ LastSpec(config.pull, p).version = None
          /\ passLock.pull[p].artifact = lock.pull[p].artifact
          /\ passLock.pull[p].version # lock.pull[p].version

\* The coordinate a lockfile pull entry records.
LockedCoordinate(e) == [group |-> e.group, artifact |-> e.artifact, version |-> e.version]

\* C11 as stated: the content request of a pull path names the global_id of
\* the path's lockfile entry.
C11_FetchedByGlobalId ==
    \A i \in DOMAIN ops :
        ops[i].op = "fetch" =>
            /\ ops[i].path \in DOMAIN lock.pull
            /\ ops[i].what = [global_id |-> lock.pull[ops[i].path].global_id]

\* C11: during sync the content of a pull path is requested by the group,
\* artifact and version of the path's lockfile entry (the global_id is not
\* sent); the parent directories are created after the fetch and before the
\* file is written, and the bytes written to the path are the bytes returned.
C11_FetchedByLockedCoordinate ==
    \A i \in DOMAIN ops :
        ops[i].op = "write" =>
            LET p == ops[i].path
            IN  /\ p \in DOMAIN lock.pull
                /\ i >= 3
                /\ ops[i - 2] = Op("fetch", p, LockedCoordinate(lock.pull[p]), TRUE)
                /\ ops[i - 1] = Op("mkdir", p, p, TRUE)
                /\ ops[i].ok =>
                      /\ ops[i].what = Content(lock.pull[p].group, lock.pull[p].artifact,
                                               lock.pull[p].version)
                      /\ files[p] = ops[i].what

\* A sync has written the content of a pull path whose configured version is
\* not the locked one.
C11_Witness ==
    /\ cmd = "sync"
    /\ \E i \in DOMAIN ops :
          /\ ops[i].op = "write" /\ ops[i].ok
          /\ ops[i].path \in PullPaths
          /\ LastSpec(config.pull, ops[i].path).version
                \notin {None, Some(lock.pull[ops[i].path].version)}

FirstSpec(specs, p) ==
    specs[CHOOSE i \in DOMAIN specs :
            /\ specs[i].path = p
            /\ \A j \in DOMAIN specs : specs[j].path = p => i <= j]

PushPaths == PathsOf(config.push)

\* C12 as stated: after a successful pass, forcing or not, every push path of
\* the configuration has a lockfile push entry with the group, artifact and
\* artifact type of the configuration's spec for the path.
C12_PushEntriesMirrorConfig ==
    PassSucceeded =>
        \A p \in PushPaths :
            /\ p \in DOMAIN lock.push
            /\ lock.push[p] = LockedPush(LastSpec(config.push, p))

\* C12: after a successful pass every push path of the configuration has a
\* lockfile push entry, in memory and on disk; after a forcing pass the entry
\* mirrors the spec listed last for the path; a non-forcing pass keeps the
\* entry the lockfile already had and otherwise mirrors the spec listed first.
C12_PushEntriesPresent ==
    PassSucceeded =>
        \A p \in PushPaths :
            /\ p \in DOMAIN lock.push
            /\ disk.kind = "json"
            /\ p \in DOMAIN disk.push
            /\ disk.push[p] = lock.push[p]
            /\ lock.push[p] =
                  IF force THEN LockedPush(LastSpec(config.push, p))
                  ELSE IF p \in DOMAIN passLock.push THEN passLock.push[p]
                  ELSE LockedPush(FirstSpec(config.push, p))

\* A non-forcing pass has completed over a lockfile whose push entry for a
\* configured path differs from the configuration's spec.
C12_Witness ==
    /\ LoadSucceeded
    /\ \E p \in PushPaths \cap DOMAIN passLock.push :
          passLock.push[p] # LockedPush(LastSpec(config.push, p))

\* The paths a list of specs names more than once.
DuplicatePaths(specs) ==
    { specs[i].path : i \in { k \in DOMAIN specs :
                                \E j \in DOMAIN specs : j # k /\ specs[j].path = specs[k].path } }

\* C13: for a path the configuration lists twice, the lockfile entry after a
\* successful pass and the plan entry after Build are those of the spec
\* listed last, for pull paths and for push paths.  Stated for the paths the
\* lockfile had no entry for when the non-forcing pass began, so that an entry
\* kept from an earlier run is not what decides.
C13_LastSpecWins ==
    /\ PassSucceeded =>
          /\ \A p \in DuplicatePaths(config.pull) :
                LET spec == LastSpec(config.pull, p)
                IN  (force \/ p \notin DOMAIN passLock.pull) =>
                        /\ p \in DOMAIN lock.pull
                        /\ lock.pull[p].group = spec.group
                        /\ lock.pull[p].artifact = spec.artifact
                        /\ spec.version \in {None, Some(lock.pull[p].version)}
          /\ \A p \in DuplicatePaths(config.push) :
                (force \/ p \notin DOMAIN passLock.push) =>
                    /\ p \in DOMAIN lock.push
                    /\ lock.push[p] = LockedPush(LastSpec(config.push, p))
    /\ (PlanBuilt /\ ~force) =>
          /\ \A p \in DuplicatePaths(config.pull) \ DOMAIN passLock.pull :
                LET spec == LastSpec(config.pull, p)
                IN  /\ p \in DOMAIN plan.pull
                    /\ plan.pull[p].group = Some(spec.group)
                    /\ plan.pull[p].artifact = Some(spec.artifact)
                    /\ spec.version \in {None, plan.pull[p].version}
          /\ \A p \in DuplicatePaths(config.push) :
                LET spec == LastSpec(config.push, p)
                IN  /\ p \in DOMAIN plan.push
                    /\ plan.push[p].group = Some(spec.group)
                    /\ plan.push[p].artifact = Some(spec.artifact)
                    /\ plan.push[p].artifact_type = spec.artifact_type

\* C14: for a pull path present in the configuration and in the lockfile, the
\* group and the artifact of the built plan entry are the configuration's,
\* also when the lockfile entry records another group or artifact.
C14_ConfigGroupArtifactWin ==
    PlanBuilt =>
        \A p \in PullPaths \cap DOMAIN LockAtBuild.pull :
            LET spec == LastSpec(config.pull, p)
            IN  /\ plan.pull[p].group = Some(spec.group)
                /\ plan.pull[p].artifact = Some(spec.artifact)

\* The fields of a pull spec and of a push spec that supply a plan field.
PullConfigSupplies(p, field) ==
    /\ p \in PullPaths
    /\ \/ field \in {"group", "artifact"}
       \/ field = "version" /\ LastSpec(config.pull, p).version # None

PushConfigField(spec, field) ==
    CASE field = "group" -> Some(spec.group)
      [] field = "artifact" -> Some(spec.artifact)
      [] field = "artifact_type" -> spec.artifact_type
      [] field = "name" -> spec.name
      [] field = "description" -> spec.description
      [] field = "labels" -> spec.labels
      [] field = "properties" -> spec.properties

\* C15: in a built plan a field of an entry is unset only if neither the
\* configuration nor the lockfile supplies a value for it at that path; a
\* pull ref's artifact_type is set whenever the path has a lockfile entry.
C15_UnsetOnlyIfUnsupplied ==
    PlanBuilt =>
        /\ \A p \in DOMAIN plan.pull :
              /\ \A field \in {"group", "artifact", "version"} :
                    plan.pull[p][field] = None =>
                        /\ p \notin DOMAIN LockAtBuild.pull
                        /\ ~PullConfigSupplies(p, field)
              /\ plan.pull[p].artifact_type = None => p \notin DOMAIN LockAtBuild.pull
        /\ \A p \in DOMAIN plan.push :
              \A field \in {"group", "artifact", "artifact_type", "name",
                            "description", "labels", "properties"} :
                    plan.push[p][field] = None =>
                        PushConfigField(LastSpec(config.push, p), field) = None

\* C16: the push map of the built plan has exactly the push paths of the
\* configuration, each with the group, artifact, type, name, description,
\* labels and properties of the configuration's spec for the path, whatever
\* push entries the lockfile holds.
C16_PushPlanFromConfig ==
    PlanBuilt =>
        /\ DOMAIN plan.push = PushPaths
        /\ \A p \in PushPaths :
              \A field \in {"group", "artifact", "artifact_type", "name",
                            "description", "labels", "properties"} :
                  plan.push[p][field] = PushConfigField(LastSpec(config.push, p), field)

\* A plan is built while the lockfile's push entry of a configured path names
\* another artifact than the configuration does.
C16_Witness ==
    /\ PlanBuilt
    /\ \E p \in PushPaths \cap DOMAIN LockAtBuild.push :
          LockAtBuild.push[p].artifact # LastSpec(config.push, p).artifact

\* C17: loading an existing lockfile that serde_json rejects ends the run with
\* a Parse error; no pass is started, no metadata request is sent and the
\* lockfile on disk stays as it was.
C17_MalformedIsParseError ==
    [][LoadMalformed =>
          /\ pc' = "done"
          /\ result' = "Parse"
          /\ disk' = disk
          /\ lock' = lock
          /\ fetches' = fetches]_vars

\* C18: a successful pass persists the lockfile exactly once, after every
\* metadata request, insert and the pruning, with nothing written while the
\* loop runs; it does so also when the pass changed nothing.
C18_PersistsOnce ==
    /\ pc = "generate" => (writes = <<>> /\ disk = passDisk)
    /\ PassSucceeded =>
          /\ Len(writes) = 1
          /\ writes[1].fetched = Len(fetches)
          /\ writes[1].content = ToJson(lock)
          /\ DOMAIN writes[1].content.pull = PullPaths
          /\ disk = writes[1].content

\* A non-forcing pass over a lockfile that already locks every configured
\* path has completed: nothing was requested and the file holds what it held.
C18_Witness ==
    /\ LoadSucceeded
    /\ config.pull # <<>>
    /\ fetches = <<>>
    /\ passDisk.kind = "json"
    /\ disk = passDisk
    /\ Len(writes) = 1

\* C19: a run of update fetches no artifact content, pushes no artifact and
\* writes no file of the working directory: only the lockfile changes.
C19_UpdateOnlyReconciles ==
    [][cmd = "update" =>
          /\ files' = files
          /\ registry' = registry
          /\ ops' = <<>>]_vars

\* An update has completed for a configuration with pull and push specs.
C19_Witness ==
    /\ cmd = "update"
    /\ UpdateSucceeded
    /\ fetches # <<>>
    /\ config.push # <<>>
    /\ disk # passDisk

\* The context the current_context of the context file selects, if any.
SelectedContext ==
    IF /\ ctxFile.kind = "json"
       /\ ctxFile.current_context # None
       /\ ctxFile.current_context[1] \in DOMAIN ctxFile.contexts
    THEN Some(ctxFile.current_context[1])
    ELSE None

\* try_new has returned without a read or parse failure.
Resolved == ctx.kind \in {"ok", "Setup"}

C21_RefreshResolvesEverySpec ==
    UpdateSucceeded =>
        /\ Len(fetches) = Len(config.pull)
        /\ \A i \in DOMAIN config.pull :
              LET spec == config.pull[i]
                  sent == fetches[i]
              IN  /\ sent.ok
                  /\ sent.path = spec.path
                  /\ sent.req.group = spec.group
                  /\ sent.req.artifact = spec.artifact
                  /\ sent.req.kind = IF spec.version # None THEN "version" ELSE "latest"
                  /\ spec.version # None => sent.req.version = spec.version[1]
                  /\ (\A j \in DOMAIN config.pull : config.pull[j].path = spec.path => j <= i)
                        => /\ spec.path \in DOMAIN lock.pull
                           /\ lock.pull[spec.path] =
                                 LockedPull(Metadata(sent.req.group, sent.req.artifact,
                                                     sent.req.version))
                           /\ disk.pull[spec.path] = lock.pull[spec.path]

\* A forcing pass has replaced the entry of a path that was locked at
\* another version of the same artifact.
C21_Witness ==
    /\ UpdateSucceeded
    /\ Len(fetches) = Len(config.pull)
    /\ \E p \in PullPaths \cap DOMAIN passLock.pull :
          /\ passLock.pull[p].artifact = lock.pull[p].artifact
          /\ passLock.pull[p].global_id # lock.pull[p].global_id

\* The content requests of a sync for the paths that were locked when the run
\* began and whose spec pins no version ask for the locked version.
SyncFetchesLockedVersion ==
    cmd = "sync" =>
        \A i \in DOMAIN ops :
            (/\ ops[i].op = "fetch"
             /\ ops[i].path \in PullPaths \cap DOMAIN passLock.pull
             /\ LastSpec(config.pull, ops[i].path).version = None)
                => ops[i].what.version = passLock.pull[ops[i].path].version

\* The step changes the version the lockfile on disk records for a path.
LockedVersionChanges(p) ==
    /\ disk.kind = "json" /\ p \in DOMAIN disk.pull
    /\ disk'.kind = "json" /\ p \in DOMAIN disk'.pull
    /\ disk'.pull[p].version # disk.pull[p].version

\* C22: for a pull spec without a version whose path is locked at version v,
\* every sync asks the content of version v, also after the registry's latest
\* version has changed, and the version on record for a path changes only in
\* the write of a forcing pass.
C22_PinnedAcrossRuns ==
    [][/\ SyncFetchesLockedVersion'
       /\ \A p \in Paths : LockedVersionChanges(p) => (force /\ cmd = "update")]_vars

\* After a sync, version 2 of a1 became the latest one and the next sync has
\* written the content of the locked version 1 for a spec that pins nothing.
C22_Witness ==
    /\ cmd = "sync"
    /\ prev.kind = "sync"
    /\ prev.latest # latest
    /\ \E i \in DOMAIN ops :
          /\ ops[i].op = "write" /\ ops[i].ok
          /\ ops[i].path \in PullPaths \cap DOMAIN passLock.pull
          /\ LastSpec(config.pull, ops[i].path).version = None
          /\ LastSpec(config.pull, ops[i].path).artifact = "a1"
          /\ lock.pull[ops[i].path].version # latest["a1"]
          /\ ops[i].what = Content("g1", "a1", "1")

\* C23: an iteration of pull_artifacts leaves the file of its path holding the
\* full content the registry returned, or exactly as it was when the
\* iteration fails; the file is never left empty or partly written.
C23_PullAllOrNothingPerFile ==
    [][pc = "pull" =>
          \A p \in Paths :
              \/ files'[p] = files[p]
              \/ /\ p \in DOMAIN plan.pull
                 /\ PullComplete(plan.pull[p])
                 /\ files'[p] = Content(plan.pull[p].group[1], plan.pull[p].artifact[1],
                                        plan.pull[p].version[1])
                 /\ result' = result]_vars

\* C24: in the plan run builds after a successful load, every pull entry has
\* its group, artifact and version and every push entry has its group and
\* artifact, so no run ends in the panic of an expect or unwrap of sync.rs.
C24_PlanFieldsPresent ==
    /\ PlanBuilt =>
          /\ \A p \in DOMAIN plan.pull : PullComplete(plan.pull[p])
          /\ \A p \in DOMAIN plan.push : PushComplete(plan.push[p])
    /\ result # "panic"

\* A sync walks a plan with a push entry and a pull entry whose spec pins no
\* version.
C24_Witness ==
    /\ pc \in {"pull", "push"}
    /\ DOMAIN plan.push # {}
    /\ \E p \in PullPaths :
          /\ LastSpec(config.pull, p).version = None
          /\ plan.pull[p].version # None

\* C25: once Context::write has stored a context (name, URL, auth), from_file
\* for its name, or for the current context when it was made current, yields
\* that name, URL and auth, and so does the context a later run resolves.
C25_ContextRoundTrip ==
    written.kind = "written" =>
        LET c == written.context
        IN  /\ from_file(ctxFile, Some(c.context_name)) = Ok(Some(c))
            /\ written.current => from_file(ctxFile, None) = Ok(Some(c))
            /\ (ctx.kind = "ok" /\ written.current) =>
                  /\ ctx.value.context_name = c.context_name
                  /\ ctx.value.auth = c.auth
                  /\ ctxEnv.url = None => ctx.value.registry_url = c.registry_url

====
